---- MODULE Spec2Model ----
(***************************************************************************)
(* Meta Prompt Generator: the generation / backup / fallback orchestration *)
(* of MetaPromptGenerator (src/src/prompt_generator.py), the completion    *)
(* client LLMClient (src/src/llm_client.py) and the HTTP adapter           *)
(* (src/src/api.py).                                                       *)
(*                                                                         *)
(* A text is a sequence of tokens.  The phrases the code searches for are  *)
(* token sequences, and the constant chunks of the code's f-strings are    *)
(* single tokens.  "x in text" is Contains, str.replace is Replace.        *)
(***************************************************************************)
EXTENDS Integers, Sequences, FiniteSets, TLC

\* ------------------------------------------------------------------ bounds
\* number of generate requests served by one process
MaxRequests == 2
\* longest text fed to the pure text functions
MaxLen == 4

\* ------------------------------------------------------- program constants
OPENROUTER_MODEL == "google/gemini-2.5-pro-exp-03-25:free"

BACKUP_MODELS ==
  << "google/gemini-2.5-pro-exp-03-25:free",
     "openrouter/quasar-alpha",
     "deepseek/deepseek-chat-v3-0324:free",
     "meta-llama/llama-4-maverick:free" >>

\* the marker the orchestrator looks for in a completion text
Marker == "Error generating prompt"
\* the text LLMClient returns for a 200 response without choices
UnexpectedFormat == "Error: Unexpected response format from OpenRouter API"
Placeholder == "{file_content}"

TheDocument == << "the", "document" >>
TheInputDocument == << "the", "input", "document" >>
TheProvidedDocument == << "the", "provided", "document" >>

TemplateNames == { "invoice_template.txt", "email_template.txt", "legal_template.txt" }
\* the value _load_template returns for a missing file
None == << "None" >>

\* ----------------------------------------------------------- text algebra
\* Python's  sub in s
Contains(s, sub) ==
  \E i \in 0..(Len(s) - Len(sub)) : SubSeq(s, i + 1, i + Len(sub)) = sub

\* Python's  s.startswith(sub)
StartsWith(s, sub) ==
  Len(s) >= Len(sub) /\ SubSeq(s, 1, Len(sub)) = sub

\* Python's  s.replace(old, new): every non-overlapping occurrence, left to right
RECURSIVE Replace(_, _, _)
Replace(s, old, new) ==
  IF Len(s) < Len(old) THEN s
  ELSE IF SubSeq(s, 1, Len(old)) = old
       THEN new \o Replace(SubSeq(s, Len(old) + 1, Len(s)), old, new)
       ELSE << Head(s) >> \o Replace(Tail(s), old, new)

\* str.lower() of one token: only the tokens of the model that carry capitals
LowerTok(tok) ==
  CASE tok = "Invoice" -> "invoice"
    [] tok = "Email" -> "email"
    [] tok = "Contract" -> "contract"
    [] tok = "JSON" -> "json"
    [] tok = "Extract" -> "extract"
    [] OTHER -> tok

\* a lower() that leaves the text as it is
Lower_identity(s) == s

\* Python's  s.lower()
Lower(s) == [ i \in 1..Len(s) |-> LowerTok(s[i]) ]

\* ---------------------------------------------- MetaPromptGenerator, pure
\* post_process_prompt without its third replacement
post_process_prompt_two(prompt) ==
  IF ~ Contains(prompt, << Placeholder >>)
  THEN Replace(Replace(prompt, TheDocument,
                       << "the", "document", "provided", "in", Placeholder >>),
               TheInputDocument,
               << "the", "input", "document", "provided", "in", Placeholder >>)
  ELSE prompt

\* post_process_prompt without the test for the placeholder
post_process_prompt_noGuard(prompt) ==
  Replace(Replace(Replace(prompt, TheDocument,
                          << "the", "document", "provided", "in", Placeholder >>),
                  TheInputDocument,
                  << "the", "input", "document", "provided", "in", Placeholder >>),
          TheProvidedDocument,
          << "the", "provided", "document", "in", Placeholder >>)

\* post_process_prompt that appends the placeholder when no phrase took it
post_process_prompt_append(prompt) ==
  IF ~ Contains(prompt, << Placeholder >>)
  THEN LET p3 == post_process_prompt_noGuard(prompt)
       IN  IF Contains(p3, << Placeholder >>) THEN p3 ELSE p3 \o << Placeholder >>
  ELSE prompt

\* s.replace(old, new, 1): the first occurrence only
RECURSIVE ReplaceFirst(_, _, _)
ReplaceFirst(s, old, new) ==
  IF Len(s) < Len(old) THEN s
  ELSE IF SubSeq(s, 1, Len(old)) = old
       THEN new \o SubSeq(s, Len(old) + 1, Len(s))
       ELSE << Head(s) >> \o ReplaceFirst(Tail(s), old, new)

\* post_process_prompt with one substitution, of the first occurrence of the
\* first phrase found
post_process_prompt_firstOnly(prompt) ==
  IF Contains(prompt, << Placeholder >>) THEN prompt
  ELSE IF Contains(prompt, TheDocument)
  THEN ReplaceFirst(prompt, TheDocument,
                    << "the", "document", "provided", "in", Placeholder >>)
  ELSE IF Contains(prompt, TheInputDocument)
  THEN ReplaceFirst(prompt, TheInputDocument,
                    << "the", "input", "document", "provided", "in", Placeholder >>)
  ELSE ReplaceFirst(prompt, TheProvidedDocument,
                    << "the", "provided", "document", "in", Placeholder >>)

\* post_process_prompt that puts the placeholder in the place of the phrase
post_process_prompt_bare(prompt) ==
  IF ~ Contains(prompt, << Placeholder >>)
  THEN Replace(Replace(Replace(prompt, TheDocument, << Placeholder >>),
                       TheInputDocument, << Placeholder >>),
               TheProvidedDocument, << Placeholder >>)
  ELSE prompt

\* post_process_prompt: three chained str.replace calls when the placeholder
\* is not in the prompt
post_process_prompt(prompt) ==
  IF ~ Contains(prompt, << Placeholder >>)
  THEN LET p1 == Replace(prompt, TheDocument,
                         << "the", "document", "provided", "in", Placeholder >>)
           p2 == Replace(p1, TheInputDocument,
                         << "the", "input", "document", "provided", "in", Placeholder >>)
           p3 == Replace(p2, TheProvidedDocument,
                         << "the", "provided", "document", "in", Placeholder >>)
       IN  p3
  ELSE prompt

\* _enhance_user_query without the sentence that names the placeholder
_enhance_user_query_noPlaceholder(user_query) ==
  << "I need you to create a detailed prompt for a data extraction task based on the following requirement:",
     "\"" >>
  \o user_query \o
  << "\"",
     "2. Specify all data fields that need to be extracted as mentioned in the requirement 3. Provide clear instructions on the expected output format (",
     "JSON",
     ") 4. Include guidance on handling missing or unclear information 5. Include at least one example of the expected output format",
     "Please generate the complete prompt that I can use with an LLM to extract the specified data." >>

\* _enhance_user_query: the f-string frame around the user query
_enhance_user_query(user_query) ==
  << "I need you to create a detailed prompt for a data extraction task based on the following requirement:",
     "\"" >>
  \o user_query \o
  << "\"",
     "The prompt you generate should: 1. Instruct the model to carefully analyze",
     "the", "entire", "document", "provided", "in", Placeholder,
     "2. Specify all data fields that need to be extracted as mentioned in the requirement 3. Provide clear instructions on the expected output format (",
     "JSON",
     ") 4. Include guidance on handling missing or unclear information 5. Include at least one example of the expected output format",
     "Please generate the complete prompt that I can use with an LLM to extract the specified data." >>

\* a loader that gives the empty text for a missing file
_load_template_emptyForMissing(store, template_name) ==
  IF store[template_name] = None THEN << >> ELSE store[template_name]

\* _load_template: the file's text, or None when no file of that name exists
_load_template(store, template_name) == store[template_name]

\* the test "template is not None"
Truthy_notNone(template) == template # None

\* Python truthiness of an Optional[str]: None and "" are false
Truthy(template) == template # None /\ template # << >>

\* the generic f-string of _generate_fallback_prompt
GenericPrompt(user_query) ==
  << "You are a data extraction assistant. Your task is to carefully analyze",
     "the", "document", "provided", "in", Placeholder,
     "and extract the following information in a structured JSON format:" >>
  \o user_query \o
  << "Format your response as a JSON object with the appropriate structure for the requested data.",
     "Guidelines: 1. If certain information is not present in",
     "the", "document",
     ", use null for that field or omit the field entirely. 2. Convert all monetary values to numbers (not strings). 3. Use consistent date formatting (DD-MM-YYYY). 4. If you're uncertain about any information, include a \"confidence\" field with a value between 0 and 1. 5. Extract the data exactly as it appears without making assumptions or adding information not present in",
     "the", "document",
     ". 6. Only include the JSON in your response, with no additional explanation or commentary." >>

HasWord(text, word) == Contains(text, << word >>)

\* the branches in the order email, invoice, legal
_generate_fallback_prompt_emailFirst(store, user_query) ==
  LET query_lower == Lower(user_query)
      invoice == _load_template(store, "invoice_template.txt")
      email == _load_template(store, "email_template.txt")
      legal == _load_template(store, "legal_template.txt")
  IN  IF HasWord(query_lower, "email") \/ HasWord(query_lower, "message")
      THEN IF Truthy(email) THEN email ELSE GenericPrompt(user_query)
      ELSE IF HasWord(query_lower, "invoice") \/ HasWord(query_lower, "bill")
              \/ HasWord(query_lower, "receipt")
      THEN IF Truthy(invoice) THEN invoice ELSE GenericPrompt(user_query)
      ELSE IF HasWord(query_lower, "legal") \/ HasWord(query_lower, "contract")
              \/ HasWord(query_lower, "agreement")
      THEN IF Truthy(legal) THEN legal ELSE GenericPrompt(user_query)
      ELSE GenericPrompt(user_query)

\* three independent ifs instead of if / elif / elif: a branch whose template
\* is missing falls through to the next test
_generate_fallback_prompt_fallThrough(store, user_query) ==
  LET query_lower == Lower(user_query)
      invoice == _load_template(store, "invoice_template.txt")
      email == _load_template(store, "email_template.txt")
      legal == _load_template(store, "legal_template.txt")
  IN  IF (HasWord(query_lower, "invoice") \/ HasWord(query_lower, "bill")
          \/ HasWord(query_lower, "receipt")) /\ Truthy(invoice)
      THEN invoice
      ELSE IF (HasWord(query_lower, "email") \/ HasWord(query_lower, "message"))
              /\ Truthy(email)
      THEN email
      ELSE IF (HasWord(query_lower, "legal") \/ HasWord(query_lower, "contract")
               \/ HasWord(query_lower, "agreement")) /\ Truthy(legal)
      THEN legal
      ELSE GenericPrompt(user_query)

\* _generate_fallback_prompt: if / elif / elif on the lower-cased query, the
\* generic text when no branch returned
_generate_fallback_prompt(store, user_query) ==
  LET query_lower == Lower(user_query)
      invoice == _load_template(store, "invoice_template.txt")
      email == _load_template(store, "email_template.txt")
      legal == _load_template(store, "legal_template.txt")
  IN  IF HasWord(query_lower, "invoice") \/ HasWord(query_lower, "bill")
         \/ HasWord(query_lower, "receipt")
      THEN IF Truthy(invoice) THEN invoice ELSE GenericPrompt(user_query)
      ELSE IF HasWord(query_lower, "email") \/ HasWord(query_lower, "message")
      THEN IF Truthy(email) THEN email ELSE GenericPrompt(user_query)
      ELSE IF HasWord(query_lower, "legal") \/ HasWord(query_lower, "contract")
              \/ HasWord(query_lower, "agreement")
      THEN IF Truthy(legal) THEN legal ELSE GenericPrompt(user_query)
      ELSE GenericPrompt(user_query)

\* -------------------------------------------------------------- LLMClient
\* What the remote endpoint does with one POST.
\*   kind "transport": requests.post raises RequestException
\*   kind "status":    a response whose status_code is not 200, with a body
\*   kind "bad_json":  status 200, response.json() raises
\*   kind "no_choices": status 200, 'choices' missing or empty
\*   kind "no_content": status 200, choices[0] lacks message/content
\*   kind "null_content": status 200, content is JSON null
\*   kind "content":   status 200, choices[0].message.content is a text
HttpResponse(kind, status, text) == [ kind |-> kind, status |-> status, text |-> text ]

\* what a call of LLMClient.generate_prompt gives its caller
Returned(text) == [ kind |-> "return", text |-> text ]
ReturnedNone == [ kind |-> "return_none", text |-> << >> ]
Raised == [ kind |-> "raise", text |-> << >> ]

\* credentials the configuration may hold: os.getenv gives None when the
\* variable is unset; a set one is a text of any length
ValidKey == << "s", "k", "-", "o", "r", "-", "v", "1", "-", "a", "b", "c" >>
ApiKeys == { None, << >>, << "s", "k" >>, ValidKey }

OPENROUTER_URL == "https://openrouter.ai/api/v1/chat/completions"

\* a log line that carries the key as it is
masked_key_full(key) == key

\* LLMClient.__init__, line 38: the first five characters, three dots and the
\* last five characters of a key longer than ten characters, "***" otherwise
masked_key(key) ==
  IF Len(key) > 10
  THEN SubSeq(key, 1, 5) \o << ".", ".", "." >> \o SubSeq(key, Len(key) - 4, Len(key))
  ELSE << "*", "*", "*" >>

\* LLMClient.__init__: the fields are assigned, then the masked key is built
\* for the log from len(self.api_key) and two slices; len(None) raises
\* TypeError
LLMClient_init(key) ==
  IF key = None THEN "raised" ELSE "ok"

\* a client that raises on a server error, as response.raise_for_status() would
LLMClient_generate_prompt_raiseOn5xx(resp) ==
  IF resp.kind = "transport" THEN Raised
  ELSE IF resp.status \in { "500", "503" } THEN Raised
  ELSE IF resp.status # "200"
       THEN Returned(<< Marker, ":", resp.status, "-" >> \o resp.text)
  ELSE IF resp.kind = "bad_json" THEN Raised
  ELSE IF resp.kind = "no_choices" THEN Returned(<< UnexpectedFormat >>)
  ELSE IF resp.kind = "no_content" THEN Raised
  ELSE IF resp.kind = "null_content" THEN ReturnedNone
  ELSE Returned(resp.text)

\* a client that reads the choice with .get() and reports a missing message
\* or content like a missing choice
LLMClient_generate_prompt_lenient(resp) ==
  IF resp.kind = "transport" THEN Raised
  ELSE IF resp.status # "200"
       THEN Returned(<< Marker, ":", resp.status, "-" >> \o resp.text)
  ELSE IF resp.kind = "bad_json" THEN Raised
  ELSE IF resp.kind \in { "no_choices", "no_content" } THEN Returned(<< UnexpectedFormat >>)
  ELSE IF resp.kind = "null_content" THEN ReturnedNone
  ELSE Returned(resp.text)

\* LLMClient.generate_prompt, from the response to the value or exception
LLMClient_generate_prompt(resp) ==
  IF resp.kind = "transport" THEN Raised
  ELSE IF resp.status # "200"
       THEN Returned(<< Marker, ":", resp.status, "-" >> \o resp.text)
  ELSE IF resp.kind = "bad_json" THEN Raised
  ELSE IF resp.kind = "no_choices" THEN Returned(<< UnexpectedFormat >>)
  ELSE IF resp.kind = "no_content" THEN Raised
  ELSE IF resp.kind = "null_content" THEN ReturnedNone
  ELSE Returned(resp.text)

\* ------------------------------------------------------------ environment
\* texts a remote model may answer with
Contents ==
  { << "Extract", "fields", "from", "the", "document" >>,
    << "Analyze", Placeholder >>,
    << "Return", "JSON" >>,
    << "Sorry", ":", Marker >> }

\* the responses the endpoint may give to one POST
HttpResponses ==
  { HttpResponse("transport", "none", << >>),
    HttpResponse("status", "429", << "rate", "limited" >>),
    HttpResponse("bad_json", "200", << >>),
    HttpResponse("no_choices", "200", << >>),
    HttpResponse("no_content", "200", << >>),
    HttpResponse("null_content", "200", << >>) }
  \cup { HttpResponse("content", "200", c) : c \in Contents }

\* task descriptions a caller may send
TaskDescriptions ==
  { << "Extract", "totals" >>,
    << "Invoice", "number", "and", "email" >>,
    << "email", "sender" >>,
    << "Contract", "parties" >>,
    << "summarize", "the", "document" >>,
    << >> }

\* contents of the template directory
InvoiceTemplate == << "Extract", "invoice", "fields", "from", Placeholder >>
EmailTemplate == << "Read", "the", "input", "document" >>
LegalTemplate == << "Review", "clauses" >>

Store(invoice, email, legal) ==
  [ n \in TemplateNames |->
      CASE n = "invoice_template.txt" -> invoice
        [] n = "email_template.txt" -> email
        [] n = "legal_template.txt" -> legal ]

TemplateStores ==
  { Store(None, None, None),
    Store(InvoiceTemplate, EmailTemplate, LegalTemplate),
    Store(None, EmailTemplate, LegalTemplate),
    Store(<< >>, EmailTemplate, None) }

\* the request threads of the process; the server handles them one at a time
Requests == { 1 }

\* ------------------------------------------------------------------ state
VARIABLES
  clientModel,      \* llm_client.model, shared by every request
  lastWriter,       \* the request whose sweep last assigned llm_client.model
  templates,        \* the template directory: name -> text or None
  served,           \* number of requests started so far
  pc,               \* per request: position in the handler
  query,            \* per request: request.query
  temperature,      \* per request: request.temperature, in tenths
  error,            \* per request: the exception the handler caught
  startModel,       \* per request: llm_client.model when generate was called
  original_model,   \* per request: the local of _try_with_backup_models
  idx,              \* per request: position of the for loop in BACKUP_MODELS
  site,             \* per request: where _try_with_backup_models was called from
  sweeps,           \* per request: calls of _try_with_backup_models
  calls,            \* per request: the completion calls made, in order
  generated_prompt, \* per request: what generate_extraction_prompt returned
  path,             \* per request: the step that produced generated_prompt
  final_prompt,     \* per request: the adapter's post-processed prompt
  response,         \* per request: the adapter's response
  prompt,           \* input of the pure text function under check
  processed,        \* its output
  http_response,    \* the response handed to LLMClient.generate_prompt alone
  client_result,    \* what LLMClient.generate_prompt made of it
  fb_query,         \* the query handed to _generate_fallback_prompt alone
  fb_result,        \* its result, for the template directory in templates
  load_name,        \* the name handed to _load_template alone
  load_result,      \* what _load_template returned for it
  api_key,          \* config.OPENROUTER_API_KEY: a text, or None when unset
  api_url,          \* llm_client.api_url, the endpoint
  key_log,          \* the "Using API key: ..." record of LLMClient.__init__
  boot,             \* the module-level construction of client and generator
  enh_query,        \* the task description handed to _enhance_user_query alone
  enh_results       \* what its successive calls returned for it

orchVars ==
  << clientModel, lastWriter, templates, served, pc, query, temperature, error,
     startModel, original_model, idx, site, sweeps, calls, generated_prompt,
     path, final_prompt, response >>
textVars == << prompt, processed >>
clientVars == << http_response, client_result >>
fallbackVars == << fb_query, fb_result >>
loadVars == << load_name, load_result >>
bootVars == << api_key, api_url, key_log, boot >>
enhanceVars == << enh_query, enh_results >>
pureVars == << textVars, clientVars, fallbackVars, loadVars, bootVars, enhanceVars >>
vars == << orchVars, pureVars >>

NoText == << "-" >>
NoTemperature == -1
NoMetadata == [ query |-> NoText, temperature |-> NoTemperature ]
NoError == [ type |-> "-", message |-> NoText ]
\* what the endpoint sends: a PromptResponse (status 200, prompt, metadata) or
\* an HTTPException (status, detail); the part a response lacks is NoText or
\* NoMetadata
NoResponse ==
  [ status |-> 0, prompt |-> NoText, metadata |-> NoMetadata, detail |-> NoText ]

\* nobody has assigned llm_client.model since LLMClient.__init__
Constructor == 0

\* the process after the module-level construction of client and generator,
\* with the given request threads and the template directory holding one of
\* the given contents
InitOrchFor(threads, stores) ==
  /\ clientModel = OPENROUTER_MODEL
  /\ lastWriter = Constructor
  /\ templates \in stores
  /\ served = 0
  /\ pc = [ r \in threads |-> "idle" ]
  /\ query = [ r \in threads |-> NoText ]
  /\ temperature = [ r \in threads |-> NoTemperature ]
  /\ error = [ r \in threads |-> NoError ]
  /\ startModel = [ r \in threads |-> "-" ]
  /\ original_model = [ r \in threads |-> "-" ]
  /\ idx = [ r \in threads |-> 0 ]
  /\ site = [ r \in threads |-> "-" ]
  /\ sweeps = [ r \in threads |-> 0 ]
  /\ calls = [ r \in threads |-> << >> ]
  /\ generated_prompt = [ r \in threads |-> NoText ]
  /\ path = [ r \in threads |-> "-" ]
  /\ final_prompt = [ r \in threads |-> NoText ]
  /\ response = [ r \in threads |-> NoResponse ]

InitOrchIn(stores) == InitOrchFor(Requests, stores)

InitOrch == InitOrchIn(TemplateStores)

InitText ==
  /\ prompt = NoText
  /\ processed = NoText

NoHttpResponse == [ kind |-> "-", status |-> "-", text |-> << >> ]
NoResult == [ kind |-> "-", text |-> << >> ]

InitClient ==
  /\ http_response = NoHttpResponse
  /\ client_result = NoResult

InitFallback ==
  /\ fb_query = NoText
  /\ fb_result = NoText

InitLoad ==
  /\ load_name = "-"
  /\ load_result = NoText

\* the process has been started with a credential the provider accepts
InitBoot ==
  /\ api_key = ValidKey
  /\ api_url = OPENROUTER_URL
  /\ key_log = masked_key(ValidKey)
  /\ boot = "ok"
  /\ enh_query = NoText
  /\ enh_results = << >>

Init == InitOrch /\ InitText /\ InitClient /\ InitFallback /\ InitLoad /\ InitBoot

\* ----------------------------------------- MetaPromptGenerator, decisions
\* a marker test that looks at the beginning of the text only
ErrorInPrompt_prefix(text) == StartsWith(text, << Marker >>)

\* "Error generating prompt" in generated_prompt
ErrorInPrompt(text) == Contains(text, << Marker >>)

\* a check for any of the client's two error texts
PrimaryFailed_anyError(ret) ==
  ret.kind # "return" \/ ErrorInPrompt(ret.text) \/ Contains(ret.text, << UnexpectedFormat >>)

\* the primary attempt of generate_extraction_prompt leads to the backup
\* sweep: the call raised, the "in" test raised on None, or the marker is in
\* the text
PrimaryFailed(ret) == ret.kind # "return" \/ ErrorInPrompt(ret.text)

\* the marker test of the loop inverted
BackupFailed_inverted(ret) == ret.kind # "return" \/ ~ ErrorInPrompt(ret.text)

\* a backup attempt of _try_with_backup_models does not return from the loop
BackupFailed(ret) == ret.kind # "return" \/ ErrorInPrompt(ret.text)

\* an except clause for transport errors only: the TypeError of the "in"
\* test on None escapes it
CaughtInSweep_transportOnly(ret) == ret.kind = "raise"

\* "except Exception" of the loop body catches whatever the attempt raised
CaughtInSweep(ret) == TRUE

\* an except clause for TypeError only: what the client raises escapes it
CaughtInGenerate_typeErrorOnly(ret) == ret.kind = "return_none"

\* "except Exception" of generate_extraction_prompt catches whatever the
\* primary attempt raised
CaughtInGenerate(ret) == TRUE

\* a loop without the skip
Skipped_never(model, original) == FALSE

\* the loop skips a backup equal to the model the sweep started with
Skipped(model, original) == model = original

\* a sweep that leaves the last backup in place
ModelAfterSweep_lastBackup(original, current) == current

\* _try_with_backup_models after the loop: self.llm_client.model = original_model
ModelAfterSweep(original, current) == original

\* the text generate_extraction_prompt hands to _try_with_backup_models, and
\* through it to _generate_fallback_prompt
SweepArgument(user_query) == _enhance_user_query(user_query)

\* an adapter that forgets the post-processing step
FinalPrompt_raw(generated) == generated

\* api.generate_prompt: final_prompt = generator.post_process_prompt(generated_prompt)
FinalPrompt(generated) == post_process_prompt(generated)

\* gradio_ui.generate_prompt: the status of the metadata, from a marker test on
\* the post-processed prompt; api.generate_prompt attaches no status
GradioStatus(final) == IF Contains(final, << Marker >>) THEN "warning" ELSE "success"

\* a client that addresses every request to the configured default
AddressedModel_configured(current) == OPENROUTER_MODEL

\* LLMClient.generate_prompt: "model": self.model, read when the payload is
\* built
AddressedModel(current) == current

\* PromptRequest.temperature: a float from 0.0 to 1.0, in tenths; 0.5 when
\* the request leaves it out
DefaultTemperature == 5
Temperatures == { 0, DefaultTemperature, 10 }

\* a response whose metadata carries the field's default temperature
PromptResponse_defaultTemperature(final, q, temp) ==
  [ status |-> 200, prompt |-> final,
    metadata |-> [ query |-> q, temperature |-> DefaultTemperature ],
    detail |-> NoText ]

\* api.generate_prompt: PromptResponse(prompt=final_prompt, metadata={...}),
\* sent with status 200
PromptResponse(final, q, temp) ==
  [ status |-> 200, prompt |-> final,
    metadata |-> [ query |-> q, temperature |-> temp ],
    detail |-> NoText ]

\* config.META_SYSTEM_MESSAGE, held in self.system_message since __init__
META_SYSTEM_MESSAGE == "You are an expert prompt engineer specializing in data extraction from documents."

\* an orchestrator that hands the request's temperature on to the client
CallTemperature_request(request_temperature) == request_temperature

\* the temperature of every completion call: the literal 0.5 of lines 181 and
\* 147, whatever the adapter's request asked for
CallTemperature(request_temperature) == DefaultTemperature

\* one call of llm_client.generate_prompt(system_message=..., user_query=...,
\* temperature=...): the model it was addressed to, its arguments, its outcome
Call(model, system_message, user_query, temp, ret) ==
  [ model |-> model, system_message |-> system_message,
    user_query |-> user_query, temperature |-> temp, ret |-> ret ]

\* ---------------------------------------------------------------- actions
\* api.generate_prompt receives a request and calls
\* generator.generate_extraction_prompt(request.query)
Receive(r, t, temp) ==
  /\ pc[r] = "idle"
  /\ served < MaxRequests
  /\ served' = served + 1
  /\ query' = [ query EXCEPT ![r] = t ]
  /\ temperature' = [ temperature EXCEPT ![r] = temp ]
  /\ startModel' = [ startModel EXCEPT ![r] = clientModel ]
  /\ pc' = [ pc EXCEPT ![r] = "primary" ]
  /\ UNCHANGED << clientModel, lastWriter, templates, error, original_model,
                  idx, site, sweeps, calls, generated_prompt, path,
                  final_prompt, response >>
  /\ UNCHANGED pureVars

\* a request that leaves the temperature to its default: Field(0.5, ...)
Start(r, t) == Receive(r, t, DefaultTemperature)

\* generate_extraction_prompt: the primary completion call and its check
PrimaryCall(r, resp) ==
  /\ pc[r] = "primary"
  /\ LET ret == LLMClient_generate_prompt(resp)
     IN  /\ calls' = [ calls EXCEPT ![r] =
                         Append(@, Call(AddressedModel(clientModel), META_SYSTEM_MESSAGE,
                                         _enhance_user_query(query[r]),
                                         CallTemperature(temperature[r]), ret)) ]
         /\ IF ~ PrimaryFailed(ret)
            THEN /\ generated_prompt' = [ generated_prompt EXCEPT ![r] = ret.text ]
                 /\ path' = [ path EXCEPT ![r] = "primary" ]
                 /\ pc' = [ pc EXCEPT ![r] = "returned" ]
                 /\ UNCHANGED site
            ELSE IF ret.kind = "return"
            THEN \* line 187: the sweep is called inside the try block
                 /\ site' = [ site EXCEPT ![r] = "try" ]
                 /\ pc' = [ pc EXCEPT ![r] = "sweep_start" ]
                 /\ UNCHANGED << generated_prompt, path >>
            ELSE IF CaughtInGenerate(ret)
            THEN \* line 194: the sweep is called by the except clause
                 /\ site' = [ site EXCEPT ![r] = "except" ]
                 /\ pc' = [ pc EXCEPT ![r] = "sweep_start" ]
                 /\ UNCHANGED << generated_prompt, path >>
            ELSE /\ pc' = [ pc EXCEPT ![r] = "gen_raised" ]
                 /\ UNCHANGED << site, generated_prompt, path >>
  /\ UNCHANGED << clientModel, lastWriter, templates, served, query, temperature, error,
                  startModel,
                  original_model, idx, sweeps, final_prompt, response >>
  /\ UNCHANGED pureVars

\* _try_with_backup_models: original_model = self.llm_client.model
SweepStart(r) ==
  /\ pc[r] = "sweep_start"
  /\ original_model' = [ original_model EXCEPT ![r] = clientModel ]
  /\ idx' = [ idx EXCEPT ![r] = 1 ]
  /\ sweeps' = [ sweeps EXCEPT ![r] = @ + 1 ]
  /\ pc' = [ pc EXCEPT ![r] = "sweep_loop" ]
  /\ UNCHANGED << clientModel, lastWriter, templates, served, query, temperature, error,
                  startModel, site,
                  calls, generated_prompt, path, final_prompt, response >>
  /\ UNCHANGED pureVars

\* _try_with_backup_models: the head of the for loop, the skip of the
\* original model, and self.llm_client.model = model
SweepLoop(r) ==
  /\ pc[r] = "sweep_loop"
  /\ IF idx[r] > Len(BACKUP_MODELS)
     THEN /\ pc' = [ pc EXCEPT ![r] = "sweep_reset" ]
          /\ UNCHANGED << clientModel, lastWriter, idx >>
     ELSE IF Skipped(BACKUP_MODELS[idx[r]], original_model[r])
     THEN /\ idx' = [ idx EXCEPT ![r] = @ + 1 ]
          /\ UNCHANGED << clientModel, lastWriter, pc >>
     ELSE /\ clientModel' = BACKUP_MODELS[idx[r]]
          /\ lastWriter' = r
          /\ pc' = [ pc EXCEPT ![r] = "sweep_call" ]
          /\ UNCHANGED idx
  /\ UNCHANGED << templates, served, query, temperature, error,
                  startModel, original_model, site,
                  sweeps, calls, generated_prompt, path, final_prompt, response >>
  /\ UNCHANGED pureVars

\* _try_with_backup_models: the completion call of one backup and its check
BackupCall(r, resp) ==
  /\ pc[r] = "sweep_call"
  /\ LET ret == LLMClient_generate_prompt(resp)
     IN  /\ calls' = [ calls EXCEPT ![r] =
                         Append(@, Call(AddressedModel(clientModel), META_SYSTEM_MESSAGE,
                                         SweepArgument(query[r]),
                                         CallTemperature(temperature[r]), ret)) ]
         /\ IF ~ BackupFailed(ret)
            THEN /\ generated_prompt' = [ generated_prompt EXCEPT ![r] = ret.text ]
                 /\ path' = [ path EXCEPT ![r] = "backup" ]
                 /\ pc' = [ pc EXCEPT ![r] = "returned" ]
                 /\ UNCHANGED << idx, site >>
            ELSE IF ret.kind = "return" \/ CaughtInSweep(ret)
            THEN /\ idx' = [ idx EXCEPT ![r] = @ + 1 ]
                 /\ pc' = [ pc EXCEPT ![r] = "sweep_loop" ]
                 /\ UNCHANGED << site, generated_prompt, path >>
            ELSE IF site[r] = "try"
            THEN \* the exception leaves the sweep inside the try block of
                 \* generate_extraction_prompt: line 194 calls the sweep again
                 /\ site' = [ site EXCEPT ![r] = "except" ]
                 /\ pc' = [ pc EXCEPT ![r] = "sweep_start" ]
                 /\ UNCHANGED << idx, generated_prompt, path >>
            ELSE /\ pc' = [ pc EXCEPT ![r] = "gen_raised" ]
                 /\ UNCHANGED << idx, site, generated_prompt, path >>
  /\ UNCHANGED << clientModel, lastWriter, templates, served, query, temperature, error,
                  startModel,
                  original_model, sweeps, final_prompt, response >>
  /\ UNCHANGED pureVars

\* _try_with_backup_models: self.llm_client.model = original_model
SweepReset(r) ==
  /\ pc[r] = "sweep_reset"
  /\ clientModel' = ModelAfterSweep(original_model[r], clientModel)
  /\ lastWriter' = r
  /\ pc' = [ pc EXCEPT ![r] = "fallback" ]
  /\ UNCHANGED << templates, served, query, temperature, error,
                  startModel, original_model, idx,
                  site, sweeps, calls, generated_prompt, path, final_prompt,
                  response >>
  /\ UNCHANGED pureVars

\* MetaPromptGenerator.__init__ keeps the client and nothing else; the one
\* generator object serves every handler, and these are the fallback results
\* it has handed out to the other handlers, which it does not keep
Earlier(r) ==
  { [ user_query |-> SweepArgument(query[q]), text |-> generated_prompt[q] ] :
      q \in { x \in DOMAIN pc \ { r } : pc[x] = "done" /\ path[x] = "fallback" } }

\* a selector that remembers what it gave for a query
FallbackLookup_memo(store, user_query, earlier) ==
  IF \E e \in earlier : e.user_query = user_query
  THEN (CHOOSE e \in earlier : e.user_query = user_query).text
  ELSE _generate_fallback_prompt(store, user_query)

\* _try_with_backup_models, line 161: the selector is called anew on every
\* exhaustion and reads the template files then; the generator keeps no
\* result of an earlier request
FallbackLookup(store, user_query, earlier) == _generate_fallback_prompt(store, user_query)

\* _try_with_backup_models: return self._generate_fallback_prompt(user_query)
Fallback(r) ==
  /\ pc[r] = "fallback"
  /\ generated_prompt' = [ generated_prompt EXCEPT ![r] =
                             FallbackLookup(templates, SweepArgument(query[r]), Earlier(r)) ]
  /\ path' = [ path EXCEPT ![r] = "fallback" ]
  /\ pc' = [ pc EXCEPT ![r] = "returned" ]
  /\ UNCHANGED << clientModel, lastWriter, templates, served, query, temperature, error,
                  startModel,
                  original_model, idx, site, sweeps, calls, final_prompt,
                  response >>
  /\ UNCHANGED pureVars

\* api.generate_prompt: the post-processing step after generate returned
PostProcess(r) ==
  /\ pc[r] = "returned"
  /\ final_prompt' = [ final_prompt EXCEPT ![r] = FinalPrompt(generated_prompt[r]) ]
  /\ pc' = [ pc EXCEPT ![r] = "post_processed" ]
  /\ UNCHANGED << clientModel, lastWriter, templates, served, query, temperature, error,
                  startModel,
                  original_model, idx, site, sweeps, calls, generated_prompt,
                  path, response >>
  /\ UNCHANGED pureVars

\* api.generate_prompt: the PromptResponse
Respond(r) ==
  /\ pc[r] = "post_processed"
  /\ response' = [ response EXCEPT ![r] =
                     PromptResponse(final_prompt[r], query[r], temperature[r]) ]
  /\ pc' = [ pc EXCEPT ![r] = "done" ]
  /\ UNCHANGED << clientModel, lastWriter, templates, served, query, temperature, error,
                  startModel,
                  original_model, idx, site, sweeps, calls, generated_prompt,
                  path, final_prompt >>
  /\ UNCHANGED pureVars

\* api.generate_prompt returns: the handler's locals are gone, the client
\* object stays
Finish(r) ==
  /\ pc[r] = "done"
  /\ pc' = [ pc EXCEPT ![r] = "idle" ]
  /\ query' = [ query EXCEPT ![r] = NoText ]
  /\ temperature' = [ temperature EXCEPT ![r] = NoTemperature ]
  /\ error' = [ error EXCEPT ![r] = NoError ]
  /\ startModel' = [ startModel EXCEPT ![r] = "-" ]
  /\ original_model' = [ original_model EXCEPT ![r] = "-" ]
  /\ idx' = [ idx EXCEPT ![r] = 0 ]
  /\ site' = [ site EXCEPT ![r] = "-" ]
  /\ sweeps' = [ sweeps EXCEPT ![r] = 0 ]
  /\ calls' = [ calls EXCEPT ![r] = << >> ]
  /\ generated_prompt' = [ generated_prompt EXCEPT ![r] = NoText ]
  /\ path' = [ path EXCEPT ![r] = "-" ]
  /\ final_prompt' = [ final_prompt EXCEPT ![r] = NoText ]
  /\ response' = [ response EXCEPT ![r] = NoResponse ]
  /\ UNCHANGED << clientModel, lastWriter, templates, served >>
  /\ UNCHANGED pureVars

Next ==
  \/ \E r \in Requests, t \in TaskDescriptions : Start(r, t)
  \/ \E r \in Requests, resp \in HttpResponses : PrimaryCall(r, resp)
  \/ \E r \in Requests : SweepStart(r)
  \/ \E r \in Requests : SweepLoop(r)
  \/ \E r \in Requests, resp \in HttpResponses : BackupCall(r, resp)
  \/ \E r \in Requests : SweepReset(r)
  \/ \E r \in Requests : Fallback(r)
  \/ \E r \in Requests : PostProcess(r)
  \/ \E r \in Requests : Respond(r)
  \/ \E r \in Requests : Finish(r)

Spec == Init /\ [][Next]_vars

\* ------------------------------------- two requests on one shared generator
\* gradio_ui.py runs generate_prompt on worker threads against the one
\* module-level generator and client; nothing locks llm_client.model.
\* The two calls under study, each made once
ConcRequests == { 1, 2 }

ConcResponses ==
  { HttpResponse("status", "429", << "rate", "limited" >>),
    HttpResponse("content", "200", << "Analyze", Placeholder >>) }

ConcTasks == { << "Extract", "totals" >> }

InitConc ==
  /\ InitOrchFor(ConcRequests, { Store(None, None, None) })
  /\ InitText /\ InitClient /\ InitFallback /\ InitLoad /\ InitBoot

NextConc ==
  \/ \E r \in ConcRequests, t \in ConcTasks : Start(r, t)
  \/ \E r \in ConcRequests, resp \in ConcResponses : PrimaryCall(r, resp)
  \/ \E r \in ConcRequests : SweepStart(r)
  \/ \E r \in ConcRequests : SweepLoop(r)
  \/ \E r \in ConcRequests, resp \in ConcResponses : BackupCall(r, resp)
  \/ \E r \in ConcRequests : SweepReset(r)
  \/ \E r \in ConcRequests : Fallback(r)
  \/ \E r \in ConcRequests : PostProcess(r)
  \/ \E r \in ConcRequests : Respond(r)

SpecConc == InitConc /\ [][NextConc]_vars

\* --------------------------------- requests with a temperature of their own
CallResponses ==
  ConcResponses \cup { HttpResponse("transport", "none", << >>),
                       HttpResponse("null_content", "200", << >>) }

CallTasks == { << "Extract", "totals" >>, << "email", "sender" >> }

NextCalls ==
  \/ \E r \in Requests, t \in CallTasks, temp \in Temperatures : Receive(r, t, temp)
  \/ \E r \in Requests, resp \in CallResponses : PrimaryCall(r, resp)
  \/ \E r \in Requests : SweepStart(r)
  \/ \E r \in Requests : SweepLoop(r)
  \/ \E r \in Requests, resp \in CallResponses : BackupCall(r, resp)
  \/ \E r \in Requests : SweepReset(r)
  \/ \E r \in Requests : Fallback(r)
  \/ \E r \in Requests : PostProcess(r)
  \/ \E r \in Requests : Respond(r)
  \/ \E r \in Requests : Finish(r)

SpecCalls == Init /\ [][NextCalls]_vars

\* the steps of a handler that need nothing but the interpreter to go on:
\* everything except the two blocking completion calls
LocalStep(r) ==
  \/ SweepStart(r)
  \/ SweepLoop(r)
  \/ SweepReset(r)
  \/ Fallback(r)
  \/ PostProcess(r)
  \/ Respond(r)
  \/ Finish(r)

\* the same program with a thread that keeps running: a handler that can take
\* a local step eventually takes it; requests.post has no timeout, so nothing
\* is promised about the completion calls
NextLive ==
  \/ \E r \in Requests, t \in CallTasks : Start(r, t)
  \/ \E r \in Requests, resp \in CallResponses : PrimaryCall(r, resp)
  \/ \E r \in Requests, resp \in CallResponses : BackupCall(r, resp)
  \/ \E r \in Requests : LocalStep(r)

SpecLive == Init /\ [][NextLive]_vars /\ \A r \in Requests : WF_vars(LocalStep(r))

\* ------------------------- requests one after the other, files edited between
\* contents an operator may give the template directory while the process runs
StoreEdits ==
  { Store(None, None, None),
    Store(InvoiceTemplate, EmailTemplate, LegalTemplate),
    Store(LegalTemplate, None, None) }

StoreTasks == { << "Invoice", "number", "and", "email" >>, << "Extract", "totals" >> }

\* somebody adds, changes or removes template files
EditTemplates(store) ==
  /\ templates # store
  /\ templates' = store
  /\ UNCHANGED << clientModel, lastWriter, served, pc, query, temperature, error,
                  startModel, original_model, idx, site, sweeps, calls,
                  generated_prompt, path, final_prompt, response >>
  /\ UNCHANGED pureVars

\* no other handler is running: the event loop of api.py runs the blocking
\* handler of one request to its end before it takes the next
Alone(r) == \A q \in ConcRequests \ { r } : pc[q] \in { "idle", "done" }

InitStore ==
  /\ InitOrchFor(ConcRequests, StoreEdits)
  /\ InitText /\ InitClient /\ InitFallback /\ InitLoad /\ InitBoot

NextStore ==
  \/ \E store \in StoreEdits : EditTemplates(store)
  \/ \E r \in ConcRequests, t \in StoreTasks : Alone(r) /\ Start(r, t)
  \/ \E r \in ConcRequests, resp \in ConcResponses : PrimaryCall(r, resp)
  \/ \E r \in ConcRequests : SweepStart(r)
  \/ \E r \in ConcRequests : SweepLoop(r)
  \/ \E r \in ConcRequests, resp \in ConcResponses : BackupCall(r, resp)
  \/ \E r \in ConcRequests : SweepReset(r)
  \/ \E r \in ConcRequests : Fallback(r)
  \/ \E r \in ConcRequests : PostProcess(r)
  \/ \E r \in ConcRequests : Respond(r)

SpecStore == InitStore /\ [][NextStore]_vars

\* ------------------------------------------------ the pure text functions
Tokens == { "the", "document", "input", "provided", Placeholder, "x" }

RECURSIVE TextsOfLen(_)
TextsOfLen(n) ==
  IF n = 0 THEN { << >> }
  ELSE { Append(s, tok) : s \in TextsOfLen(n - 1), tok \in Tokens }

Texts == UNION { TextsOfLen(n) : n \in 0..MaxLen }

\* a caller hands a text of its own to post_process_prompt
ApplyPostProcess(p) ==
  /\ prompt = NoText
  /\ prompt' = p
  /\ processed' = post_process_prompt(p)
  /\ UNCHANGED << orchVars, clientVars, fallbackVars, loadVars, bootVars, enhanceVars >>

NextText == \E p \in Texts : ApplyPostProcess(p)

SpecText == Init /\ [][NextText]_vars

\* -------------------------------------------------- the client on its own
\* longest response body
MaxBodyLen == 2

BodyTokens == { "rate", "limited", "{}", Marker }

RECURSIVE BodiesOfLen(_)
BodiesOfLen(n) ==
  IF n = 0 THEN { << >> }
  ELSE { Append(s, tok) : s \in BodiesOfLen(n - 1), tok \in BodyTokens }

Bodies == UNION { BodiesOfLen(n) : n \in 0..MaxBodyLen }

\* the status codes the client logs a hint for, and one it does not
ErrorStatuses == { "400", "401", "404", "429", "500", "503", "302" }

\* every response the endpoint may give: any body under an error status,
\* and under status 200 a body that is not JSON, JSON without choices, a
\* choice without message or content, a null content or a content text
ClientResponses ==
  { HttpResponse("transport", "none", << >>) }
  \cup { HttpResponse("status", st, b) : st \in ErrorStatuses, b \in Bodies }
  \cup { HttpResponse(k, "200", << >>) :
            k \in { "bad_json", "no_choices", "no_content", "null_content" } }
  \cup { HttpResponse("content", "200", b) : b \in Bodies }

\* one call of LLMClient.generate_prompt
ApplyClient(resp) ==
  /\ http_response = NoHttpResponse
  /\ http_response' = resp
  /\ client_result' = LLMClient_generate_prompt(resp)
  /\ UNCHANGED << orchVars, textVars, fallbackVars, loadVars, bootVars, enhanceVars >>

NextClient == \E resp \in ClientResponses : ApplyClient(resp)

SpecClient == Init /\ [][NextClient]_vars

\* ------------------------------------- the fallback selector on its own
\* longest query handed to the fallback selector
MaxQueryLen == 2

QueryTokens ==
  { "invoice", "Invoice", "bill", "receipt", "email", "message",
    "legal", "Contract", "agreement", "x" }

RECURSIVE QueriesOfLen(_)
QueriesOfLen(n) ==
  IF n = 0 THEN { << >> }
  ELSE { Append(s, tok) : s \in QueriesOfLen(n - 1), tok \in QueryTokens }

Queries == UNION { QueriesOfLen(n) : n \in 0..MaxQueryLen }

\* every template directory: each file missing, empty or with its text
AllTemplateStores ==
  { Store(i, e, l) : i \in { None, << >>, InvoiceTemplate },
                     e \in { None, << >>, EmailTemplate },
                     l \in { None, << >>, LegalTemplate } }

InitFallbackSpec ==
  /\ InitOrchIn(AllTemplateStores)
  /\ InitText /\ InitClient /\ InitFallback /\ InitLoad /\ InitBoot

\* one call of _generate_fallback_prompt
ApplyFallback(q) ==
  /\ fb_query = NoText
  /\ fb_query' = q
  /\ fb_result' = _generate_fallback_prompt(templates, q)
  /\ UNCHANGED << orchVars, textVars, clientVars, loadVars, bootVars, enhanceVars >>

NextFallback == \E q \in Queries : ApplyFallback(q)

SpecFallback == InitFallbackSpec /\ [][NextFallback]_vars

\* ------------------------------ the endpoint against any generator at all
\* api.generate_prompt calls generator.generate_extraction_prompt and handles
\* what comes back; here the generator is whatever object the module holds
\* (tests/test_api.py patches it): it returns some text or raises some
\* exception
GeneratorOutputs == Contents \cup { GenericPrompt(<< "Extract", "totals" >>) }

Exception(type, message) == [ type |-> type, message |-> message ]

Exceptions ==
  { Exception("Exception", << "Test", "error" >>),
    Exception("PermissionError", << "Errno", "13", "Permission", "denied" >>),
    Exception("KeyError", << "prompt" >>),
    Exception("Exception", << >>) }

\* a handler that hides the cause from the client
ExceptionStr_generic(e) == << "Internal", "Server", "Error" >>

\* str(e): the message; KeyError gives the repr of its key
ExceptionStr(e) ==
  IF e.type = "KeyError" THEN << "'" >> \o e.message \o << "'" >> ELSE e.message

\* generator.generate_extraction_prompt(request.query) returns a text
GeneratorReturns(r, text) ==
  /\ pc[r] = "primary"
  /\ generated_prompt' = [ generated_prompt EXCEPT ![r] = text ]
  /\ path' = [ path EXCEPT ![r] = "generator" ]
  /\ pc' = [ pc EXCEPT ![r] = "returned" ]
  /\ UNCHANGED << clientModel, lastWriter, templates, served, query, temperature,
                  error, startModel, original_model, idx, site, sweeps, calls,
                  final_prompt, response >>
  /\ UNCHANGED pureVars

\* generator.generate_extraction_prompt(request.query) raises: the handler's
\* "except Exception as e" takes over
GeneratorRaises(r, e) ==
  /\ pc[r] = "primary"
  /\ error' = [ error EXCEPT ![r] = e ]
  /\ pc' = [ pc EXCEPT ![r] = "gen_raised" ]
  /\ UNCHANGED << clientModel, lastWriter, templates, served, query, temperature,
                  startModel, original_model, idx, site, sweeps, calls,
                  generated_prompt, path, final_prompt, response >>
  /\ UNCHANGED pureVars

\* api.generate_prompt: raise HTTPException(status_code=500, detail=str(e))
RespondError(r) ==
  /\ pc[r] = "gen_raised"
  /\ response' = [ response EXCEPT ![r] =
                     [ status |-> 500, prompt |-> NoText, metadata |-> NoMetadata,
                       detail |-> ExceptionStr(error[r]) ] ]
  /\ pc' = [ pc EXCEPT ![r] = "done" ]
  /\ UNCHANGED << clientModel, lastWriter, templates, served, query, temperature,
                  error, startModel, original_model, idx, site, sweeps, calls,
                  generated_prompt, path, final_prompt >>
  /\ UNCHANGED pureVars

NextApi ==
  \/ \E r \in Requests, t \in TaskDescriptions, temp \in Temperatures : Receive(r, t, temp)
  \/ \E r \in Requests, text \in GeneratorOutputs : GeneratorReturns(r, text)
  \/ \E r \in Requests, e \in Exceptions : GeneratorRaises(r, e)
  \/ \E r \in Requests : PostProcess(r)
  \/ \E r \in Requests : Respond(r)
  \/ \E r \in Requests : RespondError(r)
  \/ \E r \in Requests : Finish(r)

SpecApi == Init /\ [][NextApi]_vars

\* ----------------------------------------------- start-up and first calls
\* what the endpoint answers to a POST carrying the given credential: a
\* rejection unless the provider knows the key
ResponsesFor(key) ==
  IF key = ValidKey THEN ConcResponses
  ELSE { HttpResponse("status", "401", << "No", "auth", "credentials", "found" >>) }

\* the process before api.py / gradio_ui.py / main.py construct the client
InitStartup ==
  /\ InitOrchIn({ Store(None, None, None), Store(InvoiceTemplate, EmailTemplate, LegalTemplate) })
  /\ InitText /\ InitClient /\ InitFallback /\ InitLoad
  /\ api_key \in ApiKeys
  /\ api_url = OPENROUTER_URL
  /\ key_log = NoText
  /\ boot = "importing"
  /\ enh_query = NoText
  /\ enh_results = << >>

\* llm_client = LLMClient(); generator = MetaPromptGenerator(llm_client=llm_client)
Construct ==
  /\ boot = "importing"
  /\ boot' = LLMClient_init(api_key)
  /\ key_log' = IF LLMClient_init(api_key) = "ok" THEN masked_key(api_key) ELSE key_log
  /\ UNCHANGED << api_key, api_url, orchVars, textVars, clientVars, fallbackVars,
                  loadVars, enhanceVars >>

\* requests are served once the module has been imported
NextStartup ==
  \/ Construct
  \/ /\ boot = "ok"
     /\ \/ \E r \in Requests, t \in TaskDescriptions : Start(r, t)
        \/ \E r \in Requests, resp \in ResponsesFor(api_key) : PrimaryCall(r, resp)
        \/ \E r \in Requests : SweepStart(r)
        \/ \E r \in Requests : SweepLoop(r)
        \/ \E r \in Requests, resp \in ResponsesFor(api_key) : BackupCall(r, resp)
        \/ \E r \in Requests : SweepReset(r)
        \/ \E r \in Requests : Fallback(r)
        \/ \E r \in Requests : PostProcess(r)
        \/ \E r \in Requests : Respond(r)
        \/ \E r \in Requests : Finish(r)

SpecStartup == InitStartup /\ [][NextStartup]_vars

\* ------------------------------------------- the client built with any key
\* the longest key drawn: one more than the ten characters of the length test
MaxKeyLen == 11

\* a character of no special meaning, and the two characters the mask is made of
KeyChars == { "k", ".", "*" }

\* OPENROUTER_API_KEY is whatever text the environment holds, or is unset
Keys == { None } \cup UNION { [ 1..n -> KeyChars ] : n \in 0..MaxKeyLen }

InitMask ==
  /\ InitOrchIn({ Store(None, None, None) }) /\ InitText /\ InitClient /\ InitFallback /\ InitLoad
  /\ api_key \in Keys
  /\ api_url = OPENROUTER_URL
  /\ key_log = NoText
  /\ boot = "importing"
  /\ enh_query = NoText
  /\ enh_results = << >>

NextMask == Construct

SpecMask == InitMask /\ [][NextMask]_vars

\* ----------------------------------------- the query enhancer on its own
\* how often the same task description is enhanced
EnhanceCalls == 2

\* one call of _enhance_user_query, on a new task description or once more on
\* the one before
ApplyEnhance(t) ==
  /\ Len(enh_results) < EnhanceCalls
  /\ enh_results = << >> \/ t = enh_query
  /\ enh_query' = t
  /\ enh_results' = Append(enh_results, _enhance_user_query(t))
  /\ UNCHANGED << orchVars, textVars, clientVars, fallbackVars, loadVars, bootVars >>

NextEnhance == \E t \in Queries \cup TaskDescriptions : ApplyEnhance(t)

SpecEnhance == Init /\ [][NextEnhance]_vars

\* ---------------------------------------- the template loader on its own
\* one call of _load_template; the file is opened for reading
ApplyLoad(n) ==
  /\ load_name = "-"
  /\ load_name' = n
  /\ load_result' = _load_template(templates, n)
  /\ UNCHANGED << orchVars, textVars, clientVars, fallbackVars, bootVars, enhanceVars >>

NextLoad == \E n \in TemplateNames : ApplyLoad(n)

SpecLoad == InitFallbackSpec /\ [][NextLoad]_vars

TypeOK ==
  /\ clientModel \in { BACKUP_MODELS[i] : i \in 1..Len(BACKUP_MODELS) } \cup { OPENROUTER_MODEL }
  /\ lastWriter \in { Constructor } \cup DOMAIN pc
  /\ served \in 0..MaxRequests
  /\ \A r \in DOMAIN pc :
       /\ pc[r] \in { "idle", "primary", "sweep_start", "sweep_loop", "sweep_call",
                      "sweep_reset", "fallback", "returned", "post_processed",
                      "done", "gen_raised" }
       /\ idx[r] \in 0..(Len(BACKUP_MODELS) + 1)
       /\ sweeps[r] \in 0..2
       /\ Len(calls[r]) <= 1 + Len(BACKUP_MODELS)

\* ================================================================ claims
\* vocabulary of the claims, independent of the orchestrator's own tests
HasMarker(text) == Contains(text, << Marker >>)
BeginsWithMarker(text) == StartsWith(text, << Marker >>)
\* an attempt failed: it raised (the client, or the marker test on None) or
\* its text carries the marker
AttemptFailed(ret) == ret.kind # "return" \/ HasMarker(ret.text)
AttemptSucceeded(ret) == ret.kind = "return" /\ ~ HasMarker(ret.text)
AttemptRaised(ret) == ret.kind # "return"

\* generate_extraction_prompt has returned to the adapter
HasReturned(r) == pc[r] \in { "returned", "post_processed", "done" }

\* the backups the sweep of request r may call: the configured list without
\* the model tried as primary
Eligible(r) ==
  LET NotPrimary(m) == m # calls[r][1].model
  IN  SelectSeq(BACKUP_MODELS, NotPrimary)

\* the models of the backup calls of request r, in call order
BackupModelsTried(r) == [ k \in 1..(Len(calls[r]) - 1) |-> calls[r][k + 1].model ]

IsPrefix(s, t) == Len(s) <= Len(t) /\ SubSeq(t, 1, Len(s)) = s

\* the text steps 2-4 produced for request r
RawResult(r) ==
  IF path[r] = "fallback"
  THEN _generate_fallback_prompt(templates, SweepArgument(query[r]))
  ELSE calls[r][Len(calls[r])].ret.text

C2_FallbackOnOriginal ==
  \A r \in Requests :
    HasReturned(r) /\ path[r] = "fallback"
      => generated_prompt[r] = _generate_fallback_prompt(templates, query[r])

\* C3 (as claimed): a primary text that does not begin with the marker ends
\* the generate call with one completion call and that text as result.
C3_NoPrefixNoSweep ==
  \A r \in Requests :
    /\ Len(calls[r]) >= 1
    /\ calls[r][1].ret.kind = "return"
    /\ ~ BeginsWithMarker(calls[r][1].ret.text)
    => /\ sweeps[r] = 0
       /\ Len(calls[r]) = 1
       /\ HasReturned(r)
       /\ generated_prompt[r] = calls[r][1].ret.text

\* C3 (amended): a primary text that does not contain the marker anywhere
\* ends the generate call with no backup sweep, exactly one completion call
\* and that text as result.
C3_NoMarkerNoSweep ==
  \A r \in Requests :
    /\ Len(calls[r]) >= 1
    /\ calls[r][1].ret.kind = "return"
    /\ ~ HasMarker(calls[r][1].ret.text)
    => /\ sweeps[r] = 0
       /\ Len(calls[r]) = 1
       /\ HasReturned(r)
       /\ path[r] = "primary"
       /\ generated_prompt[r] = calls[r][1].ret.text

C3_Witness ==
  \E r \in Requests :
    /\ pc[r] = "done"
    /\ Len(calls[r]) = 1
    /\ calls[r][1].ret = Returned(<< "Return", "JSON" >>)
    /\ generated_prompt[r] = << "Return", "JSON" >>

\* C4: when the primary returns the sentinel string and the first backup
\* tried succeeds, exactly two completion calls are made and the returned
\* text is the backup's.
C4_FirstBackupSucceeds ==
  \A r \in Requests :
    /\ Len(calls[r]) >= 2
    /\ calls[r][1].ret.kind = "return"
    /\ HasMarker(calls[r][1].ret.text)
    /\ AttemptSucceeded(calls[r][2].ret)
    => /\ Len(calls[r]) = 2
       /\ HasReturned(r)
       /\ path[r] = "backup"
       /\ generated_prompt[r] = calls[r][2].ret.text

C4_Witness ==
  \E r \in Requests :
    /\ pc[r] = "returned"
    /\ Len(calls[r]) = 2
    /\ BeginsWithMarker(calls[r][1].ret.text)
    /\ calls[r][2].ret = Returned(<< "Analyze", Placeholder >>)
    /\ generated_prompt[r] = << "Analyze", Placeholder >>

\* C5 (as claimed): what generate_extraction_prompt returns is the
\* post-processed form of the text steps 2-4 produced.
C5_GenerateReturnsPostProcessed ==
  \A r \in Requests :
    HasReturned(r) => generated_prompt[r] = post_process_prompt(RawResult(r))

\* C5 (amended): generate_extraction_prompt returns the text of steps 2-4 as
\* it is; the adapter applies post_process_prompt to it, so on every path the
\* prompt the adapter delivers is postProcess(raw result of steps 2-4).
C5_AdapterPostProcesses ==
  \A r \in Requests :
    /\ HasReturned(r) => generated_prompt[r] = RawResult(r)
    /\ pc[r] = "done"
         => /\ response[r].prompt = post_process_prompt(RawResult(r))
            /\ response[r].prompt = post_process_prompt(generated_prompt[r])

C5_Witness ==
  \E r \in Requests :
    /\ pc[r] = "done"
    /\ path[r] = "backup"
    /\ generated_prompt[r] = << "Extract", "fields", "from", "the", "document" >>
    /\ response[r].prompt =
         << "Extract", "fields", "from", "the", "document", "provided", "in", Placeholder >>

\* C6: a text that contains the placeholder or one of the phrases "the
\* document", "the input document", "the provided document" is post-processed
\* to a non-empty text that contains the placeholder.
C6_PlaceholderPresent ==
  /\ prompt # NoText
  /\ \/ Contains(prompt, << Placeholder >>)
     \/ Contains(prompt, TheDocument)
     \/ Contains(prompt, TheInputDocument)
     \/ Contains(prompt, TheProvidedDocument)
  => /\ Len(processed) > 0
     /\ Contains(processed, << Placeholder >>)

C6_Witness ==
  /\ prompt = << "x", "the", "provided", "document" >>
  /\ processed = << "x", "the", "provided", "document", "in", Placeholder >>

\* C7 (as claimed): when a generate call has returned, the client's current
\* model is what it was when the call started, and every primary attempt is
\* addressed to the configured primary model.
C7_ModelRestored ==
  \A r \in Requests :
    /\ HasReturned(r) => clientModel = startModel[r]
    /\ Len(calls[r]) >= 1 => calls[r][1].model = OPENROUTER_MODEL

\* C8: the sweep calls the backups in list order, never the model just tried
\* as primary, and issues no completion call after a successful one.
C8_SweepInOrder ==
  \A r \in Requests :
    Len(calls[r]) >= 1
    => /\ IsPrefix(BackupModelsTried(r), Eligible(r))
       /\ \A k \in 2..Len(calls[r]) : calls[r][k].model # calls[r][1].model
       /\ \A k \in 1..(Len(calls[r]) - 1) : AttemptFailed(calls[r][k].ret)
       /\ AttemptSucceeded(calls[r][Len(calls[r])].ret) => HasReturned(r)

C8_Witness ==
  \E r \in Requests :
    /\ Len(calls[r]) = 3
    /\ calls[r][1].model = BACKUP_MODELS[2]
    /\ calls[r][2].model = BACKUP_MODELS[1]
    /\ calls[r][3].model = BACKUP_MODELS[3]
    /\ AttemptSucceeded(calls[r][3].ret)
    /\ pc[r] = "returned"

C10_SweepContinues ==
  \A r \in Requests :
    /\ pc[r] # "gen_raised"
    /\ \A k \in 2..Len(calls[r]) :
         AttemptFailed(calls[r][k].ret) /\ k - 1 < Len(Eligible(r))
         => \/ /\ k < Len(calls[r])
               /\ calls[r][k + 1].model = Eligible(r)[k]
            \/ /\ k = Len(calls[r])
               /\ pc[r] \in { "sweep_loop", "sweep_call" }
               /\ sweeps[r] = 1

C10_Witness ==
  \E r \in Requests :
    /\ pc[r] = "returned"
    /\ path[r] = "backup"
    /\ Len(calls[r]) = 4
    /\ calls[r][2].ret.kind = "raise"
    /\ BeginsWithMarker(calls[r][3].ret.text)
    /\ AttemptSucceeded(calls[r][4].ret)

\* C11: for every response whose status is not 200, LLMClient.generate_prompt
\* raises nothing and returns a text that begins with the marker and carries
\* the status code and the response body.
C11_ErrorStatusGivesSentinel ==
  http_response.kind = "status"
  => /\ client_result.kind = "return"
     /\ BeginsWithMarker(client_result.text)
     /\ Contains(client_result.text, << http_response.status >>)
     /\ Len(client_result.text) > Len(http_response.text)
     /\ SubSeq(client_result.text,
               Len(client_result.text) - Len(http_response.text) + 1,
               Len(client_result.text)) = http_response.text

C11_Witness ==
  /\ http_response = HttpResponse("status", "503", << "rate", "limited" >>)
  /\ client_result.kind = "return"
  /\ client_result.text = << Marker, ":", "503", "-", "rate", "limited" >>

InvoiceWords == { "invoice", "bill", "receipt" }
EmailWords == { "email", "message" }
LegalWords == { "legal", "contract", "agreement" }
\* the capitalised spellings a query of the model may use
Spellings(word) ==
  CASE word = "invoice" -> { "invoice", "Invoice" }
    [] word = "email" -> { "email", "Email" }
    [] word = "contract" -> { "contract", "Contract" }
    [] OTHER -> { word }
\* the query contains, in any spelling, a keyword of the set
Mentions(q, words) ==
  \E i \in 1..Len(q) : \E w \in words : q[i] \in Spellings(w)
\* the template file of the first rule the query matches, "-" for none
FirstRule(q) ==
  IF Mentions(q, InvoiceWords) THEN "invoice_template.txt"
  ELSE IF Mentions(q, EmailWords) THEN "email_template.txt"
  ELSE IF Mentions(q, LegalWords) THEN "legal_template.txt"
  ELSE "-"
\* the template files of every rule the query matches
MatchedRules(q) ==
  { n \in TemplateNames :
      \/ n = "invoice_template.txt" /\ Mentions(q, InvoiceWords)
      \/ n = "email_template.txt" /\ Mentions(q, EmailWords)
      \/ n = "legal_template.txt" /\ Mentions(q, LegalWords) }
FallbackApplied == fb_query # NoText

\* C14 (as claimed): when the template file of the first matching rule is
\* present, the fallback selector returns that file's text verbatim.
C14_PresentTemplateReturned ==
  FallbackApplied /\ FirstRule(fb_query) # "-"
    /\ templates[FirstRule(fb_query)] # None
  => fb_result = templates[FirstRule(fb_query)]

\* C14 (amended): when the template file of the first matching rule is
\* present and not empty, the fallback selector returns that file's text
\* verbatim.
C14_NonEmptyTemplateReturned ==
  FallbackApplied /\ FirstRule(fb_query) # "-"
    /\ templates[FirstRule(fb_query)] # None
    /\ templates[FirstRule(fb_query)] # << >>
  => fb_result = templates[FirstRule(fb_query)]

C14_Witness ==
  /\ fb_query = << "Contract", "x" >>
  /\ templates["legal_template.txt"] = LegalTemplate
  /\ fb_result = LegalTemplate

\* C15: a query with keywords of several rules resolves to the earliest
\* matching rule only: it gets that rule's template and never the template
\* of a later rule.
C15_FirstRuleWins ==
  FallbackApplied /\ Cardinality(MatchedRules(fb_query)) >= 2
  => /\ \A n \in MatchedRules(fb_query) \ { FirstRule(fb_query) } :
          templates[n] \notin { None, << >> } => fb_result # templates[n]
     /\ templates[FirstRule(fb_query)] \notin { None, << >> }
          => fb_result = templates[FirstRule(fb_query)]

C15_Witness ==
  /\ fb_query = << "email", "Invoice" >>
  /\ templates["email_template.txt"] = EmailTemplate
  /\ templates["invoice_template.txt"] = InvoiceTemplate
  /\ fb_result = InvoiceTemplate

\* C16: when the template of the first matching rule is absent, the result is
\* the generic text, never the template of a later rule, even if the query
\* has that rule's keyword and its template is present.
C16_AbsentFallsToGeneric ==
  FallbackApplied /\ FirstRule(fb_query) # "-"
    /\ templates[FirstRule(fb_query)] = None
  => /\ fb_result = GenericPrompt(fb_query)
     /\ \A n \in TemplateNames : fb_result # templates[n]

C16_Witness ==
  /\ fb_query = << "bill", "message" >>
  /\ templates["invoice_template.txt"] = None
  /\ templates["email_template.txt"] = EmailTemplate
  /\ fb_result = GenericPrompt(<< "bill", "message" >>)

PostProcessApplied == prompt # NoText
\* the number of places where sub occurs in s
Occurrences(s, sub) ==
  Cardinality({ i \in 0..(Len(s) - Len(sub)) : SubSeq(s, i + 1, i + Len(sub)) = sub })
HasPlaceholder(s) == Contains(s, << Placeholder >>)
HasPhrase(s) ==
  \/ Contains(s, TheDocument)
  \/ Contains(s, TheInputDocument)
  \/ Contains(s, TheProvidedDocument)
\* every occurrence of the phrase in s is followed by the inserted words
AlwaysFollowedBy(s, phrase, inserted) ==
  \A i \in 0..(Len(s) - Len(phrase)) :
    SubSeq(s, i + 1, i + Len(phrase)) = phrase
    => SubSeq(s, i + Len(phrase) + 1, i + Len(phrase) + Len(inserted)) = inserted
\* s with the inserted words taken out again after each phrase
RECURSIVE WithoutInsertions(_)
WithoutInsertions(s) ==
  IF s = << >> THEN << >>
  ELSE IF StartsWith(s, << "the", "input", "document", "provided", "in", Placeholder >>)
       THEN TheInputDocument \o WithoutInsertions(SubSeq(s, 7, Len(s)))
  ELSE IF StartsWith(s, << "the", "provided", "document", "in", Placeholder >>)
       THEN TheProvidedDocument \o WithoutInsertions(SubSeq(s, 6, Len(s)))
  ELSE IF StartsWith(s, << "the", "document", "provided", "in", Placeholder >>)
       THEN TheDocument \o WithoutInsertions(SubSeq(s, 6, Len(s)))
  ELSE << Head(s) >> \o WithoutInsertions(Tail(s))

\* C18: post_process_prompt is idempotent: applied to its own output it
\* returns that output.
C18_Idempotent ==
  PostProcessApplied => post_process_prompt(processed) = processed

C18_Witness ==
  /\ prompt = << "the", "input", "document", "x" >>
  /\ processed = << "the", "input", "document", "provided", "in", Placeholder, "x" >>

\* C19: post_process_prompt returns its input unchanged when the input
\* contains the placeholder, and when it contains neither the placeholder nor
\* any of the three phrases.
C19_UnchangedCases ==
  PostProcessApplied /\ ( HasPlaceholder(prompt) \/ ~ HasPhrase(prompt) )
  => processed = prompt

C19_Witness ==
  /\ prompt = << "the", "document", "x", Placeholder >>
  /\ processed = << "the", "document", "x", Placeholder >>

\* C20 (as claimed): without a placeholder in the input, at most one
\* substitution is made, of the first occurrence of the first phrase found in
\* priority order; everything else is left as it was.
C20_AtMostOneSubstitution ==
  PostProcessApplied /\ ~ HasPlaceholder(prompt)
  => /\ Occurrences(processed, << Placeholder >>) <= 1
     /\ Contains(prompt, TheDocument)
        => processed = ReplaceFirst(prompt, TheDocument,
                                    << "the", "document", "provided", "in", Placeholder >>)

\* C20 (amended): without a placeholder in the input, the three substitutions
\* are applied one after the other, each to every occurrence of its phrase:
\* the output has one placeholder per occurrence of a phrase in the input,
\* every phrase in it is followed by its inserted words, and taking the
\* inserted words out gives the input back.
C20_EveryOccurrenceSubstituted ==
  PostProcessApplied /\ ~ HasPlaceholder(prompt)
  => /\ Occurrences(processed, << Placeholder >>) =
          Occurrences(prompt, TheDocument) + Occurrences(prompt, TheInputDocument)
          + Occurrences(prompt, TheProvidedDocument)
     /\ AlwaysFollowedBy(processed, TheDocument, << "provided", "in", Placeholder >>)
     /\ AlwaysFollowedBy(processed, TheInputDocument, << "provided", "in", Placeholder >>)
     /\ AlwaysFollowedBy(processed, TheProvidedDocument, << "in", Placeholder >>)
     /\ WithoutInsertions(processed) = prompt

C20_Witness ==
  /\ prompt = << "the", "document", "the", "document" >>
  /\ Occurrences(processed, << Placeholder >>) = 2

\* ------------------------------------------------------------------- C13
\* the model the request itself means its next completion call for: the one
\* the client held when generate was called, or the backup its own loop has
\* just assigned
OwnModel(r) ==
  IF pc[r] = "primary" THEN startModel[r] ELSE BACKUP_MODELS[idx[r]]

MakesCall(r) == Len(calls'[r]) = Len(calls[r]) + 1

\* C13: with two generate calls running on one shared generator, the model
\* field is a race. A completion call of a request is addressed to whatever
\* the shared field holds at that moment, and whenever that is not the model
\* the request itself called for, it is the value the other request's sweep
\* assigned last; the witness is an execution in which one request's primary
\* call went to the other's backup and, both requests having ended in the
\* fallback, the model left in place is not the configured primary.
C13_CallsFollowTheSharedModel ==
  [][ \A r \in ConcRequests :
        MakesCall(r) =>
          LET c == calls'[r][Len(calls'[r])]
          IN  /\ c.model = clientModel
              /\ c.model # OwnModel(r) => lastWriter \in ConcRequests \ { r } ]_vars

C13_Witness ==
  \E r \in ConcRequests, q \in ConcRequests :
    /\ r # q
    /\ served = 2
    /\ pc[r] = "done" /\ pc[q] = "done"
    /\ path[r] = "fallback" /\ path[q] = "fallback"
    /\ Len(calls[r]) >= 1
    /\ calls[r][1].model # startModel[r]
    /\ startModel[q] = OPENROUTER_MODEL
    /\ clientModel # OPENROUTER_MODEL

\* ------------------------------------------------------------------- C21
\* C21: for a text with no placeholder, exactly one occurrence of "the
\* document" and neither of the other two phrases, post_process_prompt returns
\* the text with that occurrence replaced by "the document provided in
\* {file_content}" and everything before and after it unchanged.
C21_OneDocumentPhrase ==
  ( /\ PostProcessApplied
    /\ ~ HasPlaceholder(prompt)
    /\ Occurrences(prompt, TheDocument) = 1
    /\ ~ Contains(prompt, TheInputDocument)
    /\ ~ Contains(prompt, TheProvidedDocument) )
  => \E i \in 0..(Len(prompt) - 2) :
       /\ SubSeq(prompt, i + 1, i + 2) = TheDocument
       /\ processed = SubSeq(prompt, 1, i)
                       \o << "the", "document", "provided", "in", Placeholder >>
                       \o SubSeq(prompt, i + 3, Len(prompt))

\* "x the document x" becomes "x the document provided in {file_content} x"
C21_Witness ==
  /\ prompt = << "x", "the", "document", "x" >>
  /\ processed = << "x", "the", "document", "provided", "in", Placeholder, "x" >>

\* ------------------------------------------------------------------- C22
LoadApplied == load_name # "-"
FileExists(n) == templates[n] # None

C23_StartsWithoutCredential ==
  api_key = None =>
    /\ boot # "raised"
    /\ \A r \in Requests : pc[r] # "gen_raised"
    /\ \A r \in Requests : HasReturned(r) => path[r] \in { "backup", "fallback" }

\* ------------------------------------------------------------------- C24
\* C24: whenever the prompt handed to the outermost caller came from the
\* fallback template, the adapter's metadata marks the result as degraded (a
\* status other than "success"); "success" is reported only for a remotely
\* generated prompt.
C24_SuccessOnlyForRemotePrompt ==
  \A r \in Requests :
    pc[r] \in { "post_processed", "done" } /\ GradioStatus(final_prompt[r]) = "success"
    => path[r] \in { "primary", "backup" }

\* ------------------------------------------------------------------- C25
\* the backup list entries that are not the configured primary
BackupsOtherThanPrimary ==
  { i \in 1..Len(BACKUP_MODELS) : BACKUP_MODELS[i] # OPENROUTER_MODEL }

Responded(r) == pc[r] = "done"

\* C26: a successful POST /generate-prompt responds with status 200, a
\* prompt equal to post_process_prompt applied to the generator's output for
\* the request's query, and metadata echoing the request's query and
\* temperature.
C26_SuccessfulResponse ==
  \A r \in Requests :
    Responded(r) /\ error[r] = NoError
    => /\ response[r].status = 200
       /\ response[r].prompt = post_process_prompt(generated_prompt[r])
       /\ response[r].metadata.query = query[r]
       /\ response[r].metadata.temperature = temperature[r]

\* the test's case: the generator's text has no placeholder, the request
\* sets a temperature of its own
C26_Witness ==
  \E r \in Requests :
    /\ Responded(r)
    /\ query[r] = << "Extract", "totals" >>
    /\ temperature[r] = 10
    /\ generated_prompt[r] = << "Extract", "fields", "from", "the", "document" >>
    /\ response[r].status = 200
    /\ response[r].prompt =
         << "Extract", "fields", "from", "the", "document", "provided", "in", Placeholder >>
    /\ response[r].metadata = [ query |-> << "Extract", "totals" >>, temperature |-> 10 ]

\* C27: if the generator raises while handling POST /generate-prompt, the
\* endpoint responds with status 500 whose detail carries the exception's
\* message, and no prompt is returned.
C27_ErrorResponse ==
  \A r \in Requests :
    Responded(r) /\ error[r] # NoError
    => /\ response[r].status = 500
       /\ Contains(response[r].detail, error[r].message)
       /\ response[r].prompt = NoText
       /\ final_prompt[r] = NoText

C27_Witness ==
  \E r \in Requests :
    /\ Responded(r)
    /\ error[r] = Exception("Exception", << "Test", "error" >>)
    /\ response[r].status = 500
    /\ response[r].detail = << "Test", "error" >>

\* ------------------------------------------------------------------- C28
\* C28: the enhanced query is a function of the raw task description alone:
\* for every task description t it contains t verbatim, the placeholder
\* "{file_content}" and a JSON output instruction, and two enhancements of
\* the same t are identical.
C28_EnhancedQuery ==
  \A k \in 1..Len(enh_results) :
    /\ Contains(enh_results[k], << "\"" >> \o enh_query \o << "\"" >>)
    /\ Contains(enh_results[k], << Placeholder >>)
    /\ Contains(enh_results[k], << "JSON" >>)
    /\ enh_results[k] = enh_results[1]
    /\ Len(enh_results[k]) = 14 + Len(enh_query)

C28_Witness ==
  /\ enh_query = << "Invoice", "number", "and", "email" >>
  /\ Len(enh_results) = 2
  /\ enh_results[2] = enh_results[1]
  /\ Contains(enh_results[2], << "\"", "Invoice", "number", "and", "email", "\"" >>)

\* ------------------------------------------------------------------- C29
\* C29: when the backup sweep is exhausted, the client's current model is set
\* back to the value it had when the sweep started before the fallback
\* selector is invoked: at the call of the selector, and when its text has
\* been returned, the model is the one the sweep saved, which is the one the
\* primary attempt was addressed to.
C29_ModelResetBeforeFallback ==
  \A r \in Requests :
    pc[r] = "fallback" \/ (HasReturned(r) /\ path[r] = "fallback")
    => /\ clientModel = original_model[r]
       /\ clientModel = calls[r][1].model
       /\ clientModel = startModel[r]

\* the selector is about to be called after three failed backups, the last
\* of them another model than the one now in place
C29_Witness ==
  \E r \in Requests :
    /\ pc[r] = "fallback"
    /\ Len(calls[r]) = 1 + Cardinality(BackupsOtherThanPrimary)
    /\ calls[r][Len(calls[r])].model # original_model[r]
    /\ clientModel = original_model[r]

\* ------------------------------------------------------------------- C30
\* the attempt got a response of status 200 without any choice in it
NoTextInResponse(c) == c.ret = Returned(<< UnexpectedFormat >>)

\* C30: a success-status response that carries no generated text (missing or
\* empty 'choices') counts as a failed attempt: generate moves on to the
\* backup sweep after such a primary attempt, to the next backup after such a
\* backup attempt, and never returns the client's diagnostic text as the
\* generated prompt.
C30_NoTextIsAFailedAttempt ==
  \A r \in Requests :
    /\ HasReturned(r) => ~ Contains(generated_prompt[r], << UnexpectedFormat >>)
    /\ HasReturned(r) /\ path[r] \in { "primary", "backup" }
       => ~ NoTextInResponse(calls[r][Len(calls[r])])

\* ------------------------------------------------------------------- C31
\* C31: every completion call made within one generate call, primary and
\* backup alike, carries the same system instruction, the same enhanced user
\* text and temperature 0.5; only the model identifier differs between
\* attempts, and a temperature supplied by the adapter's request does not
\* change it.
C31_CallsAlike ==
  \A r \in Requests :
    \A j \in 1..Len(calls[r]) :
      /\ calls[r][j].system_message = META_SYSTEM_MESSAGE
      /\ calls[r][j].user_query = _enhance_user_query(query[r])
      /\ calls[r][j].temperature = 5
      /\ \A k \in 1..Len(calls[r]) :
           j # k => /\ calls[r][j].model # calls[r][k].model
                    /\ calls[r][j].system_message = calls[r][k].system_message
                    /\ calls[r][j].user_query = calls[r][k].user_query
                    /\ calls[r][j].temperature = calls[r][k].temperature

\* a request at temperature 1.0 whose primary and three backups were all
\* called at 0.5
C31_Witness ==
  \E r \in Requests :
    /\ temperature[r] = 10
    /\ Len(calls[r]) = 1 + Cardinality(BackupsOtherThanPrimary)
    /\ \A j \in 1..Len(calls[r]) : calls[r][j].temperature = 5

\* ------------------------------------------------------------------- C32
\* C32: each completion request is addressed to the client's current model
\* as it is at the moment of the call (during a sweep, the backup being
\* tried), and a completion call, whether it succeeds, returns the sentinel
\* or raises, leaves the client's model, credential and endpoint unchanged.
C32_CallReadsAndKeepsTheFields ==
  [][ \A r \in Requests :
        MakesCall(r) =>
          /\ calls'[r][Len(calls'[r])].model = clientModel
          /\ pc[r] = "sweep_call" => calls'[r][Len(calls'[r])].model = BACKUP_MODELS[idx[r]]
          /\ clientModel' = clientModel
          /\ api_key' = api_key
          /\ api_url' = api_url ]_vars

\* a backup call has just raised; the backup it was addressed to is still
\* the client's model
C32_Witness ==
  \E r \in Requests :
    /\ pc[r] = "sweep_loop"
    /\ Len(calls[r]) >= 2
    /\ calls[r][Len(calls[r])].ret = Raised
    /\ calls[r][Len(calls[r])].model = clientModel
    /\ clientModel # calls[r][1].model
    /\ api_key = ValidKey /\ api_url = OPENROUTER_URL

\* ------------------------------------------------------------------- C33
\* generate is blocked in llm_client.generate_prompt
InCompletionCall(r) == pc[r] \in { "primary", "sweep_call" }

\* C33: if every completion call eventually returns or raises, every generate
\* call eventually returns; a generate call can stay blocked for ever only
\* while a completion call never returns.
C33_GenerateReturns ==
  \A r \in Requests :
    ( InCompletionCall(r) ~> ~ InCompletionCall(r) )
    => ( pc[r] = "primary" ~> HasReturned(r) )

\* generate has returned after the sweep went through the whole list
C33_Witness ==
  \E r \in Requests :
    /\ pc[r] = "returned"
    /\ sweeps[r] = 1
    /\ idx[r] = Len(BACKUP_MODELS) + 1
    /\ path[r] = "fallback"

\* ------------------------------------------------------------------- C34
SelectorReturns(r) == pc[r] = "fallback" /\ pc'[r] = "returned"

\* C34: nothing is cached between requests: every generate call, whatever
\* earlier requests asked, issues a completion call of its own with its own
\* enhanced query, and each template lookup returns the store's content at
\* the time of that lookup, so a template added, changed or removed between
\* two requests is reflected by the later one.
C34_NothingCached ==
  /\ [] ( \A r \in ConcRequests :
            pc[r] \notin { "idle", "primary" }
            => /\ Len(calls[r]) >= 1
               /\ calls[r][1].user_query = _enhance_user_query(query[r]) )
  /\ [][ \A r \in ConcRequests :
           SelectorReturns(r)
           => generated_prompt'[r] =
                _generate_fallback_prompt(templates, _enhance_user_query(query[r])) ]_vars

\* two requests with the same task description, the invoice template removed
\* between them: the first got the template, the second made its own four
\* calls and got the generic text
C34_Witness ==
  \E r \in ConcRequests, q \in ConcRequests :
    /\ r # q
    /\ pc[r] = "done" /\ pc[q] = "done"
    /\ query[r] = << "Invoice", "number", "and", "email" >>
    /\ query[q] = query[r]
    /\ path[r] = "fallback" /\ path[q] = "fallback"
    /\ generated_prompt[r] = InvoiceTemplate
    /\ generated_prompt[q] = GenericPrompt(_enhance_user_query(query[q]))
    /\ Len(calls[r]) >= 1 /\ Len(calls[q]) >= 1

\* ------------------------------------------------------------------- C35
Stars == << "*", "*", "*" >>
Dots == << ".", ".", "." >>

\* the key was set and the client has been constructed with it
KeyLogged == boot = "ok" /\ api_key # None

\* a key that reads like the mask: nothing but at most three asterisks, or
\* eleven to thirteen characters that carry six dots in a row
MaskLike(key) ==
  \/ Len(key) <= 3 /\ \A i \in 1..Len(key) : key[i] = "*"
  \/ Len(key) \in 11..13 /\ Contains(key, Dots \o Dots)

RemoteResult(r) == HasReturned(r) /\ path[r] \in { "primary", "backup" }

\* the k-th completion call of the request returned a text with the marker
MarkerInCall(r, k) ==
  /\ calls[r][k].ret.kind = "return"
  /\ HasMarker(calls[r][k].ret.text)

\* C36: a text that generate returns as the result of a remote completion,
\* primary or backup, never contains the marker; a completion text with the
\* marker anywhere in it is a failed attempt: the generate call went on to a
\* further completion call or ended with the fallback.
C36_RemoteResultHasNoMarker ==
  \A r \in Requests :
    /\ RemoteResult(r) => ~ HasMarker(generated_prompt[r])
    /\ HasReturned(r) =>
         \A k \in 1..Len(calls[r]) :
           MarkerInCall(r, k) => path[r] = "fallback" \/ k < Len(calls[r])

\* the primary completion carried the marker at its end, not at its start;
\* the first backup's text, free of the marker, became the result
C36_Witness ==
  \E r \in Requests :
    /\ RemoteResult(r) /\ path[r] = "backup"
    /\ Len(calls[r]) = 2
    /\ calls[r][1].ret = Returned(<< "Sorry", ":", Marker >>)
    /\ ~ StartsWith(calls[r][1].ret.text, << Marker >>)
    /\ generated_prompt[r] = calls[r][2].ret.text
    /\ ~ HasMarker(generated_prompt[r])

====
